---- MODULE Spec2Model ----
(***************************************************************************)
(* Word Seek (src/main.py): the per-chat game sessions held in user_games, *)
(* the scores table behind the leaderboard, the guess-scoring function     *)
(* format_guess_result and the handlers /game, /stop, /leaderboard and the *)
(* text-message handler process_message; the chat registry behind /start   *)
(* and /broadcast, the top-level error handler, and the connection that    *)
(* each operation of the store opens and closes.                           *)
(*                                                                         *)
(* Words and message texts are sequences of one-character strings, so that *)
(* strip(), upper(), len() and isalpha() are computed and not assumed.     *)
(* A handler mutates user_games and the scores table before its only       *)
(* await (the reply), so each handler is one atomic action; handler calls  *)
(* in flight together interleave at those awaits.                          *)
(***************************************************************************)
EXTENDS Integers, Sequences, FiniteSets, TLC

VARIABLES
    user_games,     \* main.py:37   chat id -> session (a key is absent when no game)
    scores,         \* the scores table (main.py:65-72), rows in insertion order
    now,            \* the store's CURRENT_DATE, in days
    reply,          \* what the handler of the latest update sent back
    fetched,        \* whether the handler of the latest update asked for a target word
    target,         \* format_guess_result: argument target
    guess,          \* format_guess_result: argument guess
    result_emoji,   \* format_guess_result: returned markers (<<>> before the call)
    lb_args,        \* db_get_leaderboard: arguments of the latest call
    lb_out,         \* db_get_leaderboard: value returned by the latest call
    errors,         \* the store operations whose failure the latest handler logged
    chats,          \* the chats table (main.py:76-80): the registered chat ids
    chat_ids,       \* broadcast_command: whether the registry was read, and the list returned
    sends,          \* broadcast_command: the sends attempted, in order, each with its outcome
    db_op,          \* the store operation being executed, with its arguments
    db_pc,          \* where that operation stands
    db_conn,        \* conn of that operation: "None", "open" or "closed"
    tasks           \* the handler calls in flight on the event loop, by slot

vars == <<user_games, scores, now, reply, fetched,
          target, guess, result_emoji, lb_args, lb_out, errors,
          chats, chat_ids, sends, db_op, db_pc, db_conn, tasks>>

gameVars == <<user_games, scores, now, reply, fetched>>
fmtVars  == <<target, guess, result_emoji>>
lbVars   == <<lb_args, lb_out, errors>>
opsVars  == <<chats, chat_ids, sends>>
dbVars   == <<db_op, db_pc, db_conn>>

----------------------------------------------------------------------------
(* Bounds of the model *)

\* accepted guesses per session that the model follows
MaxAttempts == 2
\* wins recorded on one day that the model follows
MaxScores == 1
\* rows of a scores table the leaderboard is queried on
MaxRows == 2

\* handler calls that the model follows in flight at one time
MaxTasks == 2

----------------------------------------------------------------------------
(* Program constants *)

\* range(5), len(text) == 5
WordLen == 5
\* db_add_score(user_id, first_name, 5, chat_id); score_change = 5
WinBonus == 5
\* default of final_total_score when the winner is not in the query result
WinDefault == 5
\* LIMIT 10
LeaderboardLimit == 10
\* INTERVAL '7 days'
WeekDays == 7

----------------------------------------------------------------------------
(* Identities and inputs *)

Chats == {"c1", "c2"}
Users == {1, 2}

\* AADII_USER_ID: the id of the bot's owner
AADII_USER_ID == 1

\* the private chat of the owner with the bot; the chats of Chats are groups
PrivateChats == {"p1"}
AllChats == Chats \cup PrivateChats

\* update.effective_chat.type
ChatType(chat) == IF chat \in PrivateChats THEN "private" ELSE "group"

\* the users whose updates come from a chat
Members(chat) == IF chat \in PrivateChats THEN {AADII_USER_ID} ELSE Users

\* message_to_broadcast.content_type: a kind the handler has a branch for, one
\* it forwards, or no such attribute (AttributeError)
ContentTypes == {"text", "sticker"}
AttributeError == "AttributeError"

\* the first_name the updates of a user carry
FirstNames(u) == IF u = 1 THEN {"Ann"} ELSE {"Bob"}

\* the names the stored rows of a user carry: rows outlive a change of name
StoredNames(u) == IF u = 1 THEN {"Ann", "Anna"} ELSE {"Bob"}

\* calendar days of the store: a first day, the next one, and one more than
\* a week later
Days == {0, 1, 8}

None == "None"
NoChat == "-"

UpperLetters == {"A", "B", "C", "D", "E", "G", "H", "I", "L", "M", "N", "O",
                 "P", "R", "S", "T", "U", "Y"}
LowerLetters == {"a", "e", "l", "p", "y"}
Whitespace   == {" "}

\* str.upper() on one character
UpperChar(c) ==
    CASE c = "a" -> "A"
      [] c = "e" -> "E"
      [] c = "l" -> "L"
      [] c = "p" -> "P"
      [] c = "y" -> "Y"
      [] OTHER   -> c

\* str.upper()
Upper(s) == [i \in 1..Len(s) |-> UpperChar(s[i])]

RECURSIVE LStrip(_)
LStrip(s) == IF s # <<>> /\ Head(s) \in Whitespace THEN LStrip(Tail(s)) ELSE s

RECURSIVE RStrip(_)
RStrip(s) ==
    IF s # <<>> /\ s[Len(s)] \in Whitespace
    THEN RStrip(SubSeq(s, 1, Len(s) - 1))
    ELSE s

\* str.strip()
Strip(s) == RStrip(LStrip(s))

\* str.isalpha(): non-empty and every character a letter
IsAlpha(s) == s # <<>> /\ \A i \in 1..Len(s) : s[i] \in UpperLetters \cup LowerLetters

\* text = update.effective_message.text.strip().upper()
Normalize(s) == Upper(Strip(s))

\* the test of the length alone, without text.isalpha()
IsGuess_length_only(text) == Len(text) = WordLen

\* len(text) == 5 and text.isalpha()
IsGuess(text) == Len(text) = WordLen /\ IsAlpha(text)

APPLE == <<"A", "P", "P", "L", "E">>
BRAIN == <<"B", "R", "A", "I", "N">>
CHAIR == <<"C", "H", "A", "I", "R">>
DREAM == <<"D", "R", "E", "A", "M">>
EAGLE == <<"E", "A", "G", "L", "E">>
GHOST == <<"G", "H", "O", "S", "T">>
LIGHT == <<"L", "I", "G", "H", "T">>
MUSIC == <<"M", "U", "S", "I", "C">>
ALLEY == <<"A", "L", "L", "E", "Y">>

\* the built-in list of random.choice
FallbackWords == {APPLE, BRAIN, CHAIR, DREAM, EAGLE, GHOST, LIGHT, MUSIC}

\* what response.json()[0] of the word provider can be (before .upper()) when
\* the status is 200: the code takes the string as it comes, of five letters
\* or not
RemoteWords == {<<"a", "l", "l", "e", "y">>, <<"a", "l", "l", "y">>}

\* texts the message handler receives: filters.TEXT lets no empty text through
Texts == { APPLE,
           <<" ", "a", "p", "p", "l", "e", " ">>,
           ALLEY,
           <<"A", "P", "P", "L">>,
           <<"A", "L", "L", "Y">>,
           <<"A", "P", "P", "1", "E">> }

\* Normalize, tabulated once over the texts of the model
Normalized == [raw \in Texts |-> Normalize(raw)]

----------------------------------------------------------------------------
(* Game logic *)

\* the draws of random.choice that the model follows
FallbackDraws == {w \in FallbackWords : w \in {APPLE}}

\* get_random_5_letter_word: the provider's word uppercased when the request
\* succeeds with status 200, else a word of the built-in list
get_random_5_letter_word == {Upper(w) : w \in RemoteWords} \cup {Upper(w) : w \in FallbackDraws}

\* list.index(x): the leftmost position holding x
Index(list, x) == CHOOSE j \in 1..Len(list) : list[j] = x /\ \A k \in 1..(j - 1) : list[k] # x

\* x in list
In(x, list) == \E j \in 1..Len(list) : list[j] = x

\* 1. Green Check: the loop of lines 210-214 from position i on;
\*    st = [t |-> target_list, g |-> guess_list, r |-> result_emoji]
RECURSIVE GreenPass(_, _)
GreenPass(i, st) ==
    IF i > WordLen THEN st
    ELSE IF st.g[i] = st.t[i]
         THEN GreenPass(i + 1, [t |-> [st.t EXCEPT ![i] = None],
                                g |-> [st.g EXCEPT ![i] = None],
                                r |-> [st.r EXCEPT ![i] = "G"]])
         ELSE GreenPass(i + 1, st)

\* 2. Yellow/Red Check: the loop of lines 217-223 from position i on
RECURSIVE YellowPass(_, _)
YellowPass(i, st) ==
    IF i > WordLen THEN st
    ELSE IF st.r[i] = ""
         THEN IF st.g[i] # None /\ In(st.g[i], st.t)
              THEN YellowPass(i + 1, [st EXCEPT !.r[i] = "Y",
                                                !.t[Index(st.t, st.g[i])] = None])
              ELSE YellowPass(i + 1, [st EXCEPT !.r[i] = "R"])
         ELSE YellowPass(i + 1, st)

\* the second loop without line 221: a yellow marker consumes no target letter
RECURSIVE YellowPassNoConsume(_, _)
YellowPassNoConsume(i, st) ==
    IF i > WordLen THEN st
    ELSE IF st.r[i] = ""
         THEN IF st.g[i] # None /\ In(st.g[i], st.t)
              THEN YellowPassNoConsume(i + 1, [st EXCEPT !.r[i] = "Y"])
              ELSE YellowPassNoConsume(i + 1, [st EXCEPT !.r[i] = "R"])
         ELSE YellowPassNoConsume(i + 1, st)

format_guess_result_no_consume(t, g) ==
    YellowPassNoConsume(1, GreenPass(1, [t |-> t, g |-> g,
                                         r |-> [i \in 1..WordLen |-> ""]])).r

\* both checks in one loop: a yellow marker can consume a target letter that
\* a later position matches exactly
RECURSIVE SinglePass(_, _)
SinglePass(i, st) ==
    IF i > WordLen THEN st
    ELSE IF st.g[i] = st.t[i]
         THEN SinglePass(i + 1, [st EXCEPT !.r[i] = "G", !.t[i] = None])
         ELSE IF In(st.g[i], st.t)
              THEN SinglePass(i + 1, [st EXCEPT !.r[i] = "Y",
                                                !.t[Index(st.t, st.g[i])] = None])
              ELSE SinglePass(i + 1, [st EXCEPT !.r[i] = "R"])

format_guess_result_single_pass(t, g) ==
    SinglePass(1, [t |-> t, g |-> g, r |-> [i \in 1..WordLen |-> ""]]).r

\* target_list[i] or guess_list[i] for i in range(5) on a list shorter than 5
IndexError(t, g) == Len(t) < WordLen \/ Len(g) < WordLen

\* format_guess_result(target, guess): "G" is the green, "Y" the yellow and
\* "R" the red square
format_guess_result(t, g) ==
    YellowPass(1, GreenPass(1, [t |-> t, g |-> g, r |-> [i \in 1..WordLen |-> ""]])).r

----------------------------------------------------------------------------
(* Database interface *)

\* a row of the scores table; recorded_at defaults to the insertion time
Row(user_id, user_name, points, chat_id) ==
    [user_id |-> user_id, user_name |-> user_name, points |-> points,
     chat_id |-> chat_id, recorded_at |-> now]

\* the rows of the table recorded on the current day
RecordedToday(table) == Cardinality({i \in 1..Len(table) : table[i].recorded_at = now})

\* db_add_score without conn.commit(): the row is never stored
db_add_score_no_commit(ok, table, user_id, name, points, chat_id) == table

\* db_add_score: INSERT INTO scores, or nothing when the connection or the
\* statement fails (ok = FALSE); the value is the table afterwards
db_add_score(ok, table, user_id, name, points, chat_id) ==
    IF ok THEN Append(table, Row(user_id, name, points, chat_id)) ELSE table

\* WHERE 1=1 {scope_condition} {time_condition}
Selected(r, time_filter, scope, chat_id) ==
    /\ (scope = "local" => r.chat_id = chat_id)
    /\ (time_filter = "today" => r.recorded_at >= now)
    /\ (time_filter = "week" => r.recorded_at >= now - WeekDays)

RECURSIVE SumPoints(_, _)
SumPoints(table, idx) ==
    IF idx = {} THEN 0
    ELSE LET i == CHOOSE j \in idx : TRUE
         IN  table[i].points + SumPoints(table, idx \ {i})

\* GROUP BY user_id, user_name with SUM(points) as total_points
Groups(table, time_filter, scope, chat_id) ==
    LET sel == {i \in 1..Len(table) : Selected(table[i], time_filter, scope, chat_id)}
        keys == {<<table[i].user_id, table[i].user_name>> : i \in sel}
    IN  {[user_id |-> k[1], user_name |-> k[2],
          total_points |-> SumPoints(table, {i \in sel : table[i].user_id = k[1]
                                                        /\ table[i].user_name = k[2]})]
         : k \in keys}

\* ORDER BY total_points DESC: every order of the groups that is descending
\* in total_points (SQL leaves the order of equal totals open)
RECURSIVE Ordered(_)
Ordered(G) ==
    IF G = {} THEN {<<>>}
    ELSE LET top == {g \in G : \A h \in G : h.total_points <= g.total_points}
         IN  UNION {{<<g>> \o s : s \in Ordered(G \ {g})} : g \in top}

\* LIMIT n
Limit(s, n) == IF Len(s) <= n THEN s ELSE SubSeq(s, 1, n)

\* the loop of lines 163-165 over the fetched rows
Fetched(results) ==
    [sorted_scores |-> [i \in 1..Len(results) |->
                           <<results[i].user_id, results[i].total_points>>],
     user_names |-> [u \in {results[i].user_id : i \in 1..Len(results)} |->
                       LET last == CHOOSE i \in 1..Len(results) :
                                      /\ results[i].user_id = u
                                      /\ \A j \in (i + 1)..Len(results) :
                                            results[j].user_id # u
                       IN  results[last].user_name]]

\* return [], {}
EmptyResult == [sorted_scores |-> <<>>, user_names |-> <<>>]

\* db_get_leaderboard with the rows fetched before the failure returned
db_get_leaderboard_partial(ok, table, time_filter, scope, chat_id) ==
    {Fetched(Limit(s, IF ok THEN LeaderboardLimit ELSE 1))
     : s \in Ordered(Groups(table, time_filter, scope, chat_id))}

\* db_get_leaderboard(time_filter, scope, chat_id) on the scores table `table`:
\* the values the call can return; ok = FALSE when the connection or the
\* query fails
db_get_leaderboard(ok, table, time_filter, scope, chat_id) ==
    IF ~ok THEN {EmptyResult}
    ELSE {Fetched(Limit(s, LeaderboardLimit))
          : s \in Ordered(Groups(table, time_filter, scope, chat_id))}

\* db_add_chat_id: INSERT INTO chats ... ON CONFLICT (chat_id) DO NOTHING, or
\* nothing when the connection or the statement fails; the table is kept as
\* the set of its keys
db_add_chat_id(ok, table, chat_id) == IF ok THEN table \cup {chat_id} ELSE table

\* the orders a SELECT without ORDER BY can return the rows of a table in
RECURSIVE Orders(_)
Orders(S) ==
    IF S = {} THEN {<<>>}
    ELSE UNION {{<<x>> \o s : s \in Orders(S \ {x})} : x \in S}

\* Orders, tabulated once over the tables of the model
OrdersOf == [S \in SUBSET AllChats |-> Orders(S)]

\* db_get_all_chat_ids: SELECT chat_id FROM chats, or [] when the connection
\* or the query fails
db_get_all_chat_ids(ok, table) == IF ok THEN OrdersOf[table] ELSE {<<>>}

\* no operation of the store is being executed
NoOp == [name |-> "none", args |-> <<>>]

\* next((score for uid, score in data if uid == user_id), default)
FirstScore(data, user_id, default) ==
    LET hits == {i \in 1..Len(data) : data[i][1] = user_id}
    IN  IF hits = {} THEN default
        ELSE data[CHOOSE i \in hits : \A j \in hits : i <= j][2]

----------------------------------------------------------------------------
(* Replies *)

Msg(kind, chat) ==
    [kind |-> kind, chat |-> chat, word |-> <<>>, name |-> "", attempts |-> 0,
     score |-> 0, board |-> <<>>, time |-> "", scope |-> "", panel |-> <<>>,
     content_type |-> "", success_count |-> 0, total_chats |-> 0]

NoReply(chat) == Msg("none", chat)

\* error_handler: the owner alert with the error's details when the update is
\* the owner's, else the generic notice; both go to the chat of the update
ErrorReport(chat, user_id) ==
    IF user_id = AADII_USER_ID
    THEN Msg("owner_alert", chat)
    ELSE Msg("error_notice", chat)

\* "No scores recorded yet. Start your challenge with /game!"
NoScoresYet == <<"No scores recorded yet", 0>>

\* get_leaderboard_text: the header labels, then the "no scores yet" line when
\* sorted_scores is empty, else one line (name, score) per entry
get_leaderboard_text(chat, time_frame, scope, data) ==
    [Msg("leaderboard", chat) EXCEPT
        !.time  = time_frame,
        !.scope = scope,
        !.panel = IF data.sorted_scores = <<>>
                  THEN <<NoScoresYet>>
                  ELSE [i \in 1..Len(data.sorted_scores) |->
                          <<data.user_names[data.sorted_scores[i][1]],
                            data.sorted_scores[i][2]>>]]

----------------------------------------------------------------------------
(* Session store *)

\* chat_id in user_games and user_games[chat_id]["active"]
Active(chat) == chat \in DOMAIN user_games /\ user_games[chat].active

\* user_games[chat_id] = {...}
NewSession(word) ==
    [word |-> word, attempts |-> 0, active |-> TRUE, history |-> <<>>,
     guessed_words |-> {}]

\* user_games[chat_id] = session
Put(games, chat, session) ==
    [c \in DOMAIN games \cup {chat} |-> IF c = chat THEN session ELSE games[c]]

\* del user_games[chat_id]
Del(games, chat) == [c \in DOMAIN games \ {chat} |-> games[c]]

----------------------------------------------------------------------------
(* Event loop *)

\* the places of the handler calls in flight
Slots == 1..MaxTasks

\* a place that holds no handler call
Idle ==
    [kind |-> "idle", chat |-> NoChat, user_id |-> 0, first_name |-> "",
     raw |-> <<>>, pc |-> "idle", seen |-> FALSE, sent |-> "none"]

\* no handler call is in flight
NoTasks == [i \in Slots |-> Idle]

----------------------------------------------------------------------------
(* Handlers *)

\* the handler made no call of db_get_leaderboard (and none of the store)
NoQuery == lb_args' = <<>> /\ lb_out' = EmptyResult /\ errors' = {}

\* the handler did not read the chat registry and sent nothing but its reply
NoBroadcast == chat_ids' = [read |-> FALSE, ids |-> <<>>] /\ sends' = <<>>

\* logger.error of a store operation that failed (ok = FALSE)
Logged(ok, operation) == IF ok THEN {} ELSE {operation}

\* the handler's latest call of db_get_leaderboard and what it returned
Query(time_filter, scope, chat_id, data) ==
    lb_args' = <<time_filter, scope, chat_id>> /\ lb_out' = data

\* /game without the test of line 305
game_command_no_check(chat) ==
    /\ \E word \in get_random_5_letter_word :
       /\ user_games' = Put(user_games, chat, NewSession(word))
       /\ reply' = Msg("game_started", chat)
       /\ fetched' = TRUE
    /\ NoQuery
    /\ NoBroadcast
    /\ UNCHANGED <<scores, now, chats, fmtVars, dbVars>>

\* /game
game_command(chat) ==
    /\ IF Active(chat)
       THEN /\ reply' = Msg("already_active", chat)
            /\ fetched' = FALSE
            /\ UNCHANGED user_games
       ELSE \E word \in get_random_5_letter_word :
            /\ user_games' = Put(user_games, chat, NewSession(word))
            /\ reply' = Msg("game_started", chat)
            /\ fetched' = TRUE
    /\ NoQuery
    /\ NoBroadcast
    /\ UNCHANGED <<scores, now, chats, fmtVars, dbVars>>

\* /stop without del user_games[chat_id]
stop_command_no_delete(chat) ==
    /\ IF Active(chat)
       THEN /\ reply' = [Msg("stopped", chat) EXCEPT !.word = user_games[chat].word]
            /\ UNCHANGED user_games
       ELSE /\ reply' = Msg("no_active_game", chat)
            /\ UNCHANGED user_games
    /\ fetched' = FALSE
    /\ NoQuery
    /\ NoBroadcast
    /\ UNCHANGED <<scores, now, chats, fmtVars, dbVars>>

\* /stop
stop_command(chat) ==
    /\ IF Active(chat)
       THEN /\ reply' = [Msg("stopped", chat) EXCEPT !.word = user_games[chat].word]
            /\ user_games' = Del(user_games, chat)
       ELSE /\ reply' = Msg("no_active_game", chat)
            /\ UNCHANGED user_games
    /\ fetched' = FALSE
    /\ NoQuery
    /\ NoBroadcast
    /\ UNCHANGED <<scores, now, chats, fmtVars, dbVars>>

\* lines 537-543: the session after an accepted guess
Accepted(game, text) ==
    [game EXCEPT !.guessed_words = @ \cup {text},
                 !.attempts = @ + 1,
                 !.history = Append(@, <<text, format_guess_result(game.word, text)>>)]

\* score_change = 5 if text == game["word"] else 0
ScoreChange(text, word) == IF text = word THEN WinBonus ELSE 0

\* the win branch without del user_games[chat_id]
Win_keep_session(chat, user_id, first_name, after) ==
    /\ RecordedToday(scores) < MaxScores
    /\ user_games' = Put(user_games, chat, after)
    /\ \E ok, ok_add, ok_get \in BOOLEAN :
       LET table == db_add_score(ok_add, scores, user_id, first_name, WinBonus, chat) IN
       /\ scores' = table
       /\ errors' = Logged(ok, "db_get_leaderboard") \cup Logged(ok_add, "db_add_score")
                       \cup Logged(ok_get, "db_get_leaderboard")
       /\ \E final_score_data \in db_get_leaderboard(ok_get, table, "all", "global", chat) :
             /\ Query("all", "global", chat, final_score_data)
             /\ reply' = [Msg("win", chat) EXCEPT
                            !.name = first_name,
                            !.attempts = after.attempts,
                            !.score = FirstScore(final_score_data.sorted_scores,
                                                 user_id, WinDefault),
                            !.board = after.history]

\* lines 564-588: the guess is the target; ok says whether the query of
\* line 549 succeeded (this branch logs its failure and does not use its result)
Win(chat, user_id, first_name, after) ==
    /\ RecordedToday(scores) < MaxScores
    /\ user_games' = Del(user_games, chat)
    /\ \E ok, ok_add, ok_get \in BOOLEAN :
       LET table == db_add_score(ok_add, scores, user_id, first_name, WinBonus, chat) IN
       /\ scores' = table
       /\ errors' = Logged(ok, "db_get_leaderboard") \cup Logged(ok_add, "db_add_score")
                       \cup Logged(ok_get, "db_get_leaderboard")
       /\ \E final_score_data \in db_get_leaderboard(ok_get, table, "all", "global", chat) :
             /\ Query("all", "global", chat, final_score_data)
             /\ reply' = [Msg("win", chat) EXCEPT
                            !.name = first_name,
                            !.attempts = after.attempts,
                            !.score = FirstScore(final_score_data.sorted_scores,
                                                 user_id, WinDefault),
                            !.board = after.history]

\* the other branch with db_add_score(user_id, first_name, score_change, chat_id)
Incorrect_records_change(chat, user_id, text, after) ==
    /\ user_games' = Put(user_games, chat, after)
    /\ \E ok \in BOOLEAN :
       \E user_scores_data \in db_get_leaderboard(ok, scores, "all", "global", chat) :
          /\ Query("all", "global", chat, user_scores_data)
          /\ errors' = Logged(ok, "db_get_leaderboard")
          /\ reply' = [Msg("progress", chat) EXCEPT
                         !.attempts = after.attempts,
                         !.score = FirstScore(user_scores_data.sorted_scores, user_id, 0)
                                      + ScoreChange(text, after.word),
                         !.board = after.history]
    /\ scores' = db_add_score(TRUE, scores, user_id, CHOOSE n \in FirstNames(user_id) : TRUE,
                              ScoreChange(text, after.word), chat)

\* lines 590-593: the guess is not the target
Incorrect(chat, user_id, text, after) ==
    /\ user_games' = Put(user_games, chat, after)
    /\ \E ok \in BOOLEAN :
       \E user_scores_data \in db_get_leaderboard(ok, scores, "all", "global", chat) :
          /\ Query("all", "global", chat, user_scores_data)
          /\ errors' = Logged(ok, "db_get_leaderboard")
          /\ reply' = [Msg("progress", chat) EXCEPT
                         !.attempts = after.attempts,
                         !.score = FirstScore(user_scores_data.sorted_scores, user_id, 0)
                                      + ScoreChange(text, after.word),
                         !.board = after.history]
    /\ UNCHANGED scores

\* lines 529-534: the word is in guessed_words
Duplicate(chat, text) ==
    /\ reply' = [Msg("duplicate_guess", chat) EXCEPT !.word = text]
    /\ NoQuery
    /\ UNCHANGED <<user_games, scores>>

\* lines 537-542 when format_guess_result raises: the word is in
\* guessed_words and counted in attempts, nothing is appended to history, and
\* the exception reaches error_handler
Raised(chat, user_id, text) ==
    /\ user_games' = Put(user_games, chat,
                         [user_games[chat] EXCEPT !.guessed_words = @ \cup {text},
                                                  !.attempts = @ + 1])
    /\ reply' = ErrorReport(chat, user_id)
    /\ NoQuery
    /\ UNCHANGED scores

\* lines 536-594: the word is new
NewGuess(chat, user_id, first_name, text) ==
    LET game == user_games[chat] IN
    /\ game.attempts < MaxAttempts
    /\ IF IndexError(game.word, text)
       THEN Raised(chat, user_id, text)
       ELSE LET after == Accepted(game, text) IN
            IF text = after.word
            THEN Win(chat, user_id, first_name, after)
            ELSE Incorrect(chat, user_id, text, after)

\* the guess handling without the test of line 529
HandleGuess_no_duplicate_check(chat, user_id, first_name, text) ==
    NewGuess(chat, user_id, first_name, text)

\* lines 526-594: a well-formed guess in a chat with an active game
HandleGuess(chat, user_id, first_name, text) ==
    IF text \in user_games[chat].guessed_words
    THEN Duplicate(chat, text)
    ELSE NewGuess(chat, user_id, first_name, text)

\* lines 596-602: the text is no well-formed guess
FormatError(chat) ==
    /\ reply' = Msg("format_error", chat)
    /\ NoQuery
    /\ UNCHANGED <<user_games, scores>>

\* no branch of the handler applies: it returns without a reply
Ignored(chat) ==
    /\ reply' = NoReply(chat)
    /\ NoQuery
    /\ UNCHANGED <<user_games, scores>>

\* the handler with the format error sent whether or not a game is active
process_message_no_active_test(chat, user_id, first_name, raw) ==
    /\ fetched' = FALSE
    /\ IF raw = <<>>
       THEN Ignored(chat)
       ELSE LET text == Normalized[raw]
                is_game_active == Active(chat)
            IN  IF is_game_active /\ IsGuess(text)
                THEN HandleGuess(chat, user_id, first_name, text)
                ELSE IF ~IsGuess(text)
                THEN FormatError(chat)
                ELSE Ignored(chat)
    /\ NoBroadcast
    /\ UNCHANGED <<now, chats, fmtVars, dbVars>>

\* the text-message handler
process_message(chat, user_id, first_name, raw) ==
    /\ fetched' = FALSE
    /\ IF raw = <<>>
       THEN Ignored(chat)
       ELSE LET text == Normalized[raw]
                is_game_active == Active(chat)
            IN  IF is_game_active /\ IsGuess(text)
                THEN HandleGuess(chat, user_id, first_name, text)
                ELSE IF is_game_active /\ ~IsGuess(text)
                THEN FormatError(chat)
                ELSE Ignored(chat)
    /\ NoBroadcast
    /\ UNCHANGED <<now, chats, fmtVars, dbVars>>

\* /leaderboard
leaderboard_command(chat) ==
    /\ \E ok \in BOOLEAN :
       \E data \in db_get_leaderboard(ok, scores, "today", "global", chat) :
          /\ Query("today", "global", chat, data)
          /\ errors' = Logged(ok, "db_get_leaderboard")
          /\ reply' = get_leaderboard_text(chat, "today", "global", data)
    /\ fetched' = FALSE
    /\ NoBroadcast
    /\ UNCHANGED <<user_games, scores, now, chats, fmtVars, dbVars>>

\* a press on one of the panel's buttons: callback data lb_<time>_<scope>
leaderboard_callback(chat, time_frame, scope) ==
    /\ \E ok \in BOOLEAN :
       \E data \in db_get_leaderboard(ok, scores, time_frame, scope, chat) :
          /\ Query(time_frame, scope, chat, data)
          /\ errors' = Logged(ok, "db_get_leaderboard")
          /\ reply' = get_leaderboard_text(chat, time_frame, scope, data)
    /\ fetched' = FALSE
    /\ NoBroadcast
    /\ UNCHANGED <<user_games, scores, now, chats, fmtVars, dbVars>>

\* /start: registers a chat that is not private, then shows the rules
start_command(chat) ==
    /\ IF ChatType(chat) # "private"
       THEN \E ok \in BOOLEAN :
               /\ chats' = db_add_chat_id(ok, chats, chat)
               /\ errors' = Logged(ok, "db_add_chat_id")
       ELSE /\ UNCHANGED chats
            /\ errors' = {}
    /\ reply' = Msg("welcome", chat)
    /\ lb_args' = <<>> /\ lb_out' = EmptyResult
    /\ fetched' = FALSE
    /\ NoBroadcast
    /\ UNCHANGED <<user_games, scores, now, fmtVars, dbVars>>

\* the loop of lines 439-485 that gives up at the first send that fails
RECURSIVE FanOut_stop_at_failure(_, _, _)
FanOut_stop_at_failure(ids, from, failing) ==
    IF ids = <<>> THEN <<>>
    ELSE IF Head(ids) = from THEN FanOut_stop_at_failure(Tail(ids), from, failing)
    ELSE IF Head(ids) \in failing THEN <<[chat |-> Head(ids), ok |-> FALSE]>>
    ELSE <<[chat |-> Head(ids), ok |-> TRUE]>>
            \o FanOut_stop_at_failure(Tail(ids), from, failing)

\* the loop of lines 439-485 over chat_ids: the chat the command came from is
\* skipped, every other chat gets one send, which raises for the chats of
\* `failing`; the value is the sends attempted, in order
RECURSIVE FanOut(_, _, _)
FanOut(ids, from, failing) ==
    IF ids = <<>> THEN <<>>
    ELSE IF Head(ids) = from THEN FanOut(Tail(ids), from, failing)
    ELSE <<[chat |-> Head(ids), ok |-> Head(ids) \notin failing]>>
            \o FanOut(Tail(ids), from, failing)

\* success_count incremented before the send instead of after it
SuccessCount_before_send(attempts) == Len(attempts)

\* success_count: one for each send that did not raise
SuccessCount(attempts) == Cardinality({i \in 1..Len(attempts) : attempts[i].ok})

\* lines 420-489: the broadcast of the owner's replied-to message
Broadcast(chat, content_type) ==
    \E ok \in BOOLEAN : \E ids \in db_get_all_chat_ids(ok, chats) :
       /\ chat_ids' = [read |-> TRUE, ids |-> ids]
       /\ errors' = Logged(ok, "db_get_all_chat_ids")
       /\ IF content_type = AttributeError
          THEN /\ sends' = <<>>
               /\ reply' = Msg("cannot_broadcast", chat)
          ELSE \E failing \in SUBSET ({ids[i] : i \in 1..Len(ids)} \ {chat}) :
                  LET attempts == FanOut(ids, chat, failing) IN
                  /\ sends' = attempts
                  /\ reply' = [Msg("broadcast_complete", chat) EXCEPT
                                 !.content_type = content_type,
                                 !.success_count = SuccessCount(attempts),
                                 !.total_chats = Len(ids)]

\* /broadcast without the test of line 408
broadcast_command_no_owner_test(chat, user_id, replied, content_type) ==
    /\ lb_args' = <<>> /\ lb_out' = EmptyResult
    /\ fetched' = FALSE
    /\ UNCHANGED <<user_games, scores, now, chats, fmtVars, dbVars>>
    /\ IF ~replied
       THEN /\ reply' = Msg("usage", chat)
            /\ NoBroadcast
            /\ errors' = {}
       ELSE Broadcast(chat, content_type)

\* /broadcast of user_id in chat; replied: the command replies to a message,
\* whose kind content_type is
broadcast_command(chat, user_id, replied, content_type) ==
    /\ lb_args' = <<>> /\ lb_out' = EmptyResult
    /\ fetched' = FALSE
    /\ UNCHANGED <<user_games, scores, now, chats, fmtVars, dbVars>>
    /\ IF user_id # AADII_USER_ID
       THEN /\ reply' = Msg("access_denied", chat)
            /\ NoBroadcast
            /\ errors' = {}
       ELSE IF ~replied
       THEN /\ reply' = Msg("usage", chat)
            /\ NoBroadcast
            /\ errors' = {}
       ELSE Broadcast(chat, content_type)

\* error_handler for an update of user_id in chat whose handler raised before
\* it changed anything
error_handler(chat, user_id) ==
    /\ reply' = ErrorReport(chat, user_id)
    /\ NoQuery
    /\ NoBroadcast
    /\ fetched' = FALSE
    /\ UNCHANGED <<user_games, scores, now, chats, fmtVars, dbVars>>

----------------------------------------------------------------------------
(* The bot: the handlers of the game on a store that starts empty *)

Init ==
    /\ user_games = <<>>
    /\ scores = <<>>
    /\ now = 0
    /\ reply = NoReply(NoChat)
    /\ fetched = FALSE
    /\ target = <<>>
    /\ guess = <<>>
    /\ result_emoji = <<>>
    /\ lb_args = <<>>
    /\ lb_out = EmptyResult
    /\ errors = {}
    /\ chats = {}
    /\ chat_ids = [read |-> FALSE, ids |-> <<>>]
    /\ sends = <<>>
    /\ db_op = NoOp
    /\ db_pc = "idle"
    /\ db_conn = None
    /\ tasks = NoTasks

Next ==
    \/ UNCHANGED tasks /\ \E chat \in Chats : game_command(chat)
    \/ UNCHANGED tasks /\ \E chat \in Chats : stop_command(chat)
    \/ UNCHANGED tasks /\ \E chat \in Chats, user_id \in Users, raw \in Texts :
          \E first_name \in FirstNames(user_id) :
             process_message(chat, user_id, first_name, raw)
    \/ UNCHANGED tasks /\ \E chat \in Chats : leaderboard_command(chat)

Spec == Init /\ [][Next]_vars

----------------------------------------------------------------------------
(* The bot with its registry: /start, /broadcast and failed updates in the *)
(* groups and in the owner's private chat, the game in one of the groups   *)

\* the texts of the guesses that this specification follows
BotTexts == {raw \in Texts : raw = APPLE}

\* the chats whose games this specification follows
GameChats == {chat \in Chats : chat = "c1"}

\* what the replied-to message of a /broadcast can be (None: no reply)
Replied == {<<FALSE, None>>} \cup {<<TRUE, t>> : t \in ContentTypes \cup {AttributeError}}

NextBot ==
    \/ UNCHANGED tasks /\ \E chat \in AllChats : start_command(chat)
    \/ UNCHANGED tasks /\ \E chat \in GameChats : game_command(chat)
    \/ UNCHANGED tasks /\ \E chat \in GameChats : stop_command(chat)
    \/ UNCHANGED tasks /\ \E chat \in GameChats : \E user_id \in Members(chat), raw \in BotTexts :
          \E first_name \in FirstNames(user_id) :
             process_message(chat, user_id, first_name, raw)
    \/ UNCHANGED tasks /\ \E chat \in GameChats : leaderboard_command(chat)
    \/ UNCHANGED tasks /\ \E chat \in AllChats : \E user_id \in Members(chat), r \in Replied :
          broadcast_command(chat, user_id, r[1], r[2])
    \/ UNCHANGED tasks /\ \E chat \in AllChats : \E user_id \in Members(chat) : error_handler(chat, user_id)

SpecBot == Init /\ [][NextBot]_vars

----------------------------------------------------------------------------
(* The operations of the store, statement by statement: db_connect, the    *)
(* try block, the except and finally clauses, the return                   *)

\* the calls of the store's operations that this specification follows
DbCalls ==
    {[name |-> "db_init", args |-> <<>>]}
    \cup {[name |-> "db_add_score", args |-> <<user_id, name, WinBonus, chat>>]
              : user_id \in Users, name \in FirstNames(1) \cup FirstNames(2), chat \in Chats}
    \cup {[name |-> "db_add_chat_id", args |-> <<chat>>] : chat \in Chats}
    \cup {[name |-> "db_get_leaderboard", args |-> <<time_filter, scope, chat>>]
              : time_filter \in {"today", "week", "all"}, scope \in {"global", "local"},
                chat \in Chats}
    \cup {[name |-> "db_get_all_chat_ids", args |-> <<>>]}

\* an operation of the store is called
DbCall(op) ==
    /\ db_pc = "idle"
    /\ op.name = "db_add_score" =>
          /\ RecordedToday(scores) < MaxScores
          /\ op.args[2] \in FirstNames(op.args[1])
    /\ db_op' = op
    /\ db_pc' = "connect"
    /\ db_conn' = None
    /\ lb_args' = IF op.name = "db_get_leaderboard" THEN op.args ELSE <<>>
    /\ lb_out' = EmptyResult
    /\ errors' = {}
    /\ NoBroadcast
    /\ UNCHANGED <<user_games, scores, now, reply, fetched, chats, fmtVars>>

\* what the try block of the operation db_op does: the statement and the
\* commit when ok, else the except clause that logs the failure
DbBody(ok) ==
    /\ errors' = errors \cup Logged(ok, db_op.name)
    /\ scores' = IF db_op.name = "db_add_score"
                 THEN db_add_score(ok, scores, db_op.args[1], db_op.args[2],
                                   db_op.args[3], db_op.args[4])
                 ELSE scores
    /\ chats' = IF db_op.name = "db_add_chat_id"
                THEN db_add_chat_id(ok, chats, db_op.args[1])
                ELSE chats
    /\ IF db_op.name = "db_get_leaderboard"
       THEN \E data \in db_get_leaderboard(ok, scores, db_op.args[1], db_op.args[2],
                                            db_op.args[3]) : lb_out' = data
       ELSE UNCHANGED lb_out
    /\ IF db_op.name = "db_get_all_chat_ids"
       THEN \E ids \in db_get_all_chat_ids(ok, chats) :
               chat_ids' = [read |-> TRUE, ids |-> ids]
       ELSE UNCHANGED chat_ids

\* conn = db_connect(); if not conn: return (with the empty result)
DbConnect ==
    /\ db_pc = "connect"
    /\ \E ok \in BOOLEAN :
          IF ok
          THEN /\ db_conn' = "open"
               /\ db_pc' = "try"
               /\ UNCHANGED <<scores, chats, lb_out, chat_ids, errors>>
          ELSE /\ db_conn' = None
               /\ db_pc' = "return"
               /\ DbBody(FALSE)
    /\ UNCHANGED <<user_games, now, reply, fetched, fmtVars, lb_args, sends, db_op>>

\* an exception in the try block with conn.close() at the end of the try
\* block instead of in a finally clause: the function is left at once
OnException_without_finally == "return"

\* where an exception in the try block leads: the except clause logs it and
\* the finally clause follows
OnException == "finally"

\* try: with conn: ... except Exception: logger.error(...)
DbTry ==
    /\ db_pc = "try"
    /\ \E ok \in BOOLEAN :
          /\ DbBody(ok)
          /\ db_pc' = IF ok THEN "finally" ELSE OnException
    /\ UNCHANGED <<user_games, now, reply, fetched, fmtVars, lb_args, sends, db_op, db_conn>>

\* finally: if conn: conn.close()
DbFinally ==
    /\ db_pc = "finally"
    /\ db_conn' = IF db_conn # None THEN "closed" ELSE db_conn
    /\ db_pc' = "return"
    /\ UNCHANGED <<gameVars, fmtVars, lbVars, opsVars, db_op>>

\* the operation returns to its caller
DbReturn ==
    /\ db_pc = "return"
    /\ db_pc' = "idle"
    /\ UNCHANGED <<gameVars, fmtVars, lbVars, opsVars, db_op, db_conn>>

NextDb ==
    \/ UNCHANGED tasks /\ \E op \in DbCalls : DbCall(op)
    \/ UNCHANGED tasks /\ DbConnect
    \/ UNCHANGED tasks /\ DbTry
    \/ UNCHANGED tasks /\ DbFinally
    \/ UNCHANGED tasks /\ DbReturn

SpecDb == Init /\ [][NextDb]_vars

----------------------------------------------------------------------------
(* The scoring function on every pair of words over three letters *)

FmtLetters == {"A", "B", "C"}
FmtWords == [1..WordLen -> FmtLetters]

InitFmt ==
    /\ target \in FmtWords
    /\ guess \in FmtWords
    /\ result_emoji = <<>>
    /\ user_games = <<>>
    /\ scores = <<>>
    /\ now = 0
    /\ reply = NoReply(NoChat)
    /\ fetched = FALSE
    /\ lb_args = <<>>
    /\ lb_out = EmptyResult
    /\ errors = {}
    /\ chats = {}
    /\ chat_ids = [read |-> FALSE, ids |-> <<>>]
    /\ sends = <<>>
    /\ db_op = NoOp
    /\ db_pc = "idle"
    /\ db_conn = None
    /\ tasks = NoTasks

\* result_emoji = format_guess_result(target, guess)
FormatGuess ==
    /\ result_emoji = <<>>
    /\ result_emoji' = format_guess_result(target, guess)
    /\ UNCHANGED <<target, guess, gameVars, lbVars, opsVars, dbVars>>

NextFmt == UNCHANGED tasks /\ FormatGuess

SpecFmt == InitFmt /\ [][NextFmt]_vars

----------------------------------------------------------------------------
(* The leaderboard on every scores table of up to MaxRows rows *)

TimeFrames == {"today", "week", "all"}
Scopes == {"global", "local"}

\* the rows a table can hold: a win of a user under a name in a chat on a day
StoredRows ==
    {[user_id |-> u, user_name |-> n, points |-> WinBonus, chat_id |-> c,
      recorded_at |-> d] : u \in Users, n \in StoredNames(1) \cup StoredNames(2),
                           c \in Chats, d \in Days}

\* tables of the store: rows in insertion order, so recorded_at never decreases,
\* each under a name of its user
Tables ==
    {t \in UNION {[1..n -> StoredRows] : n \in 0..MaxRows} :
        /\ \A i \in 1..Len(t) : t[i].user_name \in StoredNames(t[i].user_id)
        /\ \A i \in 1..(Len(t) - 1) : t[i].recorded_at <= t[i + 1].recorded_at}

InitLb ==
    /\ scores \in Tables
    /\ now \in Days
    /\ \A i \in 1..Len(scores) : scores[i].recorded_at <= now
    /\ user_games = <<>>
    /\ reply = NoReply(NoChat)
    /\ fetched = FALSE
    /\ target = <<>>
    /\ guess = <<>>
    /\ result_emoji = <<>>
    /\ lb_args = <<>>
    /\ lb_out = EmptyResult
    /\ errors = {}
    /\ chats = {}
    /\ chat_ids = [read |-> FALSE, ids |-> <<>>]
    /\ sends = <<>>
    /\ db_op = NoOp
    /\ db_pc = "idle"
    /\ db_conn = None
    /\ tasks = NoTasks

NextLb ==
    \/ UNCHANGED tasks /\ \E chat \in Chats : leaderboard_command(chat)
    \/ UNCHANGED tasks /\ \E chat \in Chats, time_frame \in TimeFrames, scope \in Scopes :
          leaderboard_callback(chat, time_frame, scope)

SpecLb == InitLb /\ [][NextLb]_vars

----------------------------------------------------------------------------
(* The game on a store that holds the wins of an earlier day: those of the *)
(* model's users, with or without those of ten busier players              *)

\* ten other players; player u has won CrowdWins(u) games, each more than the
\* users of the model can reach
Crowd == 11..20
CrowdWins(u) == u - 8

\* the rows of the players of U, player by player
RECURSIVE CrowdRows(_)
CrowdRows(U) ==
    IF U = {} THEN <<>>
    ELSE LET u == CHOOSE x \in U : \A y \in U : x <= y
         IN  [i \in 1..CrowdWins(u) |->
                 [user_id |-> u, user_name |-> "Fan", points |-> WinBonus,
                  chat_id |-> "c2", recorded_at |-> 0]]
             \o CrowdRows(U \ {u})

\* the wins of the model's users on the earlier day, under their names
PriorTables ==
    {t \in Tables : \A i \in 1..Len(t) : /\ t[i].recorded_at = 0
                                         /\ t[i].user_name \in FirstNames(t[i].user_id)}

InitWin ==
    /\ scores \in {prefix \o t : prefix \in {<<>>, CrowdRows(Crowd)}, t \in PriorTables}
    /\ now = 1
    /\ user_games = <<>>
    /\ reply = NoReply(NoChat)
    /\ fetched = FALSE
    /\ target = <<>>
    /\ guess = <<>>
    /\ result_emoji = <<>>
    /\ lb_args = <<>>
    /\ lb_out = EmptyResult
    /\ errors = {}
    /\ chats = {}
    /\ chat_ids = [read |-> FALSE, ids |-> <<>>]
    /\ sends = <<>>
    /\ db_op = NoOp
    /\ db_pc = "idle"
    /\ db_conn = None
    /\ tasks = NoTasks

NextWin ==
    \/ UNCHANGED tasks /\ \E chat \in GameChats : game_command(chat)
    \/ UNCHANGED tasks /\ \E chat \in GameChats : \E user_id \in Members(chat), raw \in BotTexts :
          \E first_name \in FirstNames(user_id) :
             process_message(chat, user_id, first_name, raw)

SpecWin == InitWin /\ [][NextWin]_vars


----------------------------------------------------------------------------
(* The game with handler calls that interleave at their awaits: an update  *)
(* is delivered, its handler runs up to its await of the reply, and the    *)
(* call ends when the reply is sent; other calls run in between            *)

\* the updates that this specification follows: /game in both groups, and in
\* the first of them /stop and the text APPLE of the owner
LoopUpdates ==
    {[kind |-> "game", chat |-> c, user_id |-> 0, first_name |-> "", raw |-> <<>>] :
        c \in Chats}
    \cup {[kind |-> "stop", chat |-> c, user_id |-> 0, first_name |-> "", raw |-> <<>>] :
            c \in GameChats}
    \cup {[kind |-> "text", chat |-> c, user_id |-> AADII_USER_ID, first_name |-> n,
           raw |-> raw] :
            c \in GameChats, n \in FirstNames(AADII_USER_ID), raw \in BotTexts}

\* the application creates the call of the update's handler, in the first
\* free place; `seen` records whether the chat had a game at that moment
Deliver(i, update) ==
    /\ tasks[i] = Idle
    /\ \A j \in Slots : j < i => tasks[j] # Idle
    /\ tasks' = [tasks EXCEPT ![i] =
                    [kind |-> update.kind, chat |-> update.chat,
                     user_id |-> update.user_id, first_name |-> update.first_name,
                     raw |-> update.raw, pc |-> "start",
                     seen |-> Active(update.chat), sent |-> "none"]]
    /\ UNCHANGED <<gameVars, fmtVars, lbVars, opsVars, dbVars>>

\* a handler whose test of the session was made when its update was
\* delivered, with awaits between the test and the statements that follow it
Handler_test_at_delivery(t) ==
    CASE t.kind = "game" -> IF t.seen THEN game_command(t.chat)
                                      ELSE game_command_no_check(t.chat)
      [] t.kind = "stop" -> stop_command(t.chat)
      [] t.kind = "text" -> process_message(t.chat, t.user_id, t.first_name, t.raw)

\* the handler of the call, from its first statement to its await of the
\* reply: no handler awaits anything between its test of user_games and its
\* last statement on user_games or the store (the calls of the word provider
\* and of the store are blocking calls, not awaits)
Handler(t) ==
    CASE t.kind = "game" -> game_command(t.chat)
      [] t.kind = "stop" -> stop_command(t.chat)
      [] t.kind = "text" -> process_message(t.chat, t.user_id, t.first_name, t.raw)

\* the event loop runs the call up to its await of the reply
Run(i) ==
    /\ tasks[i].pc = "start"
    /\ Handler(tasks[i])
    /\ tasks' = [tasks EXCEPT ![i].pc = "reply", ![i].seen = FALSE,
                              ![i].sent = reply'.kind]

\* the awaited reply is sent and the handler returns
Return(i) ==
    /\ tasks[i].pc = "reply"
    /\ tasks' = [tasks EXCEPT ![i] = Idle]
    /\ UNCHANGED <<gameVars, fmtVars, lbVars, opsVars, dbVars>>

NextLoop ==
    \/ \E i \in Slots, update \in LoopUpdates : Deliver(i, update)
    \/ \E i \in Slots : Run(i)
    \/ \E i \in Slots : Return(i)

SpecLoop == Init /\ [][NextLoop]_vars

----------------------------------------------------------------------------
(* Properties of the scoring function, under SpecFmt *)

Positions == 1..WordLen

\* occurrences of letter c in word w
Occurrences(c, w) == Cardinality({i \in Positions : w[i] = c})

\* positions of the guess that hold c and carry marker m
Marked(c, m) == Cardinality({i \in Positions : guess[i] = c /\ result_emoji[i] = m})

\* C1: a position is marked exact (green) iff guess and target agree there,
\* and for every letter the yellow markers on it number at most its
\* occurrences in the target minus its exact matches.
C1_ExactIffEqualAndYellowBounded ==
    result_emoji # <<>> =>
        /\ \A i \in Positions : (result_emoji[i] = "G") <=> (guess[i] = target[i])
        /\ \A c \in FmtLetters :
              Marked(c, "Y") <= Occurrences(c, target) - Marked(c, "G")

\* a scored guess in which one letter is exact at one place, present elsewhere
\* at another and refused at a third, the target's supply being used up
C1_Witness ==
    /\ result_emoji # <<>>
    /\ \E c \in FmtLetters :
          /\ Marked(c, "G") >= 1
          /\ Marked(c, "Y") >= 1
          /\ Marked(c, "R") >= 1
          /\ Marked(c, "Y") = Occurrences(c, target) - Marked(c, "G")

\* the positions of the guess that hold c and do not match the target there
NonExact(c) == {i \in Positions : guess[i] = c /\ target[i] # c}

\* the occurrences of c in the target that no exact match uses
Available(c) == Occurrences(c, target)
                  - Cardinality({i \in Positions : guess[i] = c /\ target[i] = c})

Min(a, b) == IF a <= b THEN a ELSE b

\* C19: for every letter c the yellow markers number min(non-exact positions
\* of c in the guess, occurrences of c in the target minus its exact matches)
\* and sit on the leftmost non-exact positions of c; every other non-exact
\* position is red; the result has exactly 5 markers.
C19_YellowsAreLeftmostAndCounted ==
    result_emoji # <<>> =>
        /\ Len(result_emoji) = 5
        /\ \A i \in Positions : result_emoji[i] \in {"G", "Y", "R"}
        /\ \A c \in FmtLetters :
              /\ Marked(c, "Y") = Min(Cardinality(NonExact(c)), Available(c))
              /\ \A i \in NonExact(c) :
                    result_emoji[i] =
                       IF Cardinality({j \in NonExact(c) : j < i}) < Available(c)
                       THEN "Y" ELSE "R"

\* a scored guess in which a letter has more non-exact positions than the
\* target has occurrences left: the leftmost is yellow, the last is red
C19_Witness ==
    /\ result_emoji # <<>>
    /\ \E c \in FmtLetters :
          /\ Available(c) >= 1
          /\ Cardinality(NonExact(c)) > Available(c)
          /\ \E i, j \in NonExact(c) :
                i < j /\ result_emoji[i] = "Y" /\ result_emoji[j] = "R"

----------------------------------------------------------------------------
(* Properties of the game sessions, under Spec *)

\* who can send a message: user id and first name
Senders == {s \in Users \X (FirstNames(1) \cup FirstNames(2)) : s[2] \in FirstNames(s[1])}

\* the handler of the message `raw` of sender s in `chat` runs in this step
Handles(chat, s, raw) == process_message(chat, s[1], s[2], raw)

\* exactly five letters: the well-formed guess, stated on its own
FiveLetters(text) == Len(text) = 5 /\ \A i \in 1..Len(text) : text[i] \in UpperLetters

\* the texts that normalize to the target of the active game of `chat`
TargetTexts(chat) == {raw \in Texts : Normalized[raw] = user_games[chat].word}

\* those of them that are valid guesses, of five letters
WinningTexts(chat) == {raw \in TargetTexts(chat) : FiveLetters(Normalized[raw])}

\* the texts that normalize to a word already guessed in the game of `chat`
RepeatedTexts(chat) == {raw \in Texts : Normalized[raw] \in user_games[chat].guessed_words}

\* the texts that do not normalize to five letters
MalformedTexts == {raw \in Texts : ~FiveLetters(Normalized[raw])}

\* a /stop right after a win in the same chat reports no active game
StopAfterWin ==
    reply.kind = "win" =>
        (stop_command(reply.chat) => reply' = Msg("no_active_game", reply.chat))

\* C2 as stated: a guess equal to the target persists exactly one record of
\* 5 points for its sender and chat and removes the session; /stop then
\* reports no active game.
C2_WinPersistsExactlyOneRecord ==
    [][ /\ \A chat \in Chats : Active(chat) =>
              \A raw \in WinningTexts(chat) : \A s \in Senders :
                 Handles(chat, s, raw) =>
                    /\ scores' = Append(scores, Row(s[1], s[2], 5, chat))
                    /\ chat \notin DOMAIN user_games'
        /\ StopAfterWin ]_vars

\* C2 as amended: a guess equal to the target removes the session and is
\* answered with the win summary; it persists exactly one record of 5 points
\* for its sender and chat when the insert succeeds and none when the insert
\* fails (which the handler logs); /stop then reports no active game.
C2_WinPersistsOneRecordUnlessInsertFails ==
    [][ /\ \A chat \in Chats : Active(chat) =>
              \A raw \in WinningTexts(chat) : \A s \in Senders :
                 Handles(chat, s, raw) =>
                    /\ scores' = IF "db_add_score" \in errors'
                                 THEN scores
                                 ELSE Append(scores, Row(s[1], s[2], 5, chat))
                    /\ chat \notin DOMAIN user_games'
                    /\ reply'.kind = "win" /\ reply'.chat = chat
        /\ StopAfterWin ]_vars

\* a win whose record was stored
C2_Witness ==
    /\ reply.kind = "win"
    /\ "db_add_score" \notin errors
    /\ Len(scores) = 1
    /\ scores[1].points = 5
    /\ reply.chat \notin DOMAIN user_games

\* C3: /game in a chat with an active session answers with the already-active
\* error, leaves every session as it was and fetches no target word.
C3_StartOnActiveChangesNothing ==
    [][ \A chat \in Chats :
            Active(chat) /\ game_command(chat) =>
                /\ reply' = Msg("already_active", chat)
                /\ user_games' = user_games
                /\ fetched' = FALSE
                /\ scores' = scores ]_vars

\* /game was refused in a chat whose game already has a guess in its history
C3_Witness ==
    /\ reply.kind = "already_active"
    /\ reply.chat \in DOMAIN user_games
    /\ user_games[reply.chat].attempts > 0

\* C4: a message whose normalized text is in guessed_words gets the
\* duplicate-guess error; sessions and scores stay as they were and the
\* session stays active.
C4_DuplicateGuessChangesNothing ==
    [][ \A chat \in Chats : Active(chat) =>
           \A raw \in RepeatedTexts(chat) : \A s \in Senders :
              Handles(chat, s, raw) =>
                 /\ reply' = [Msg("duplicate_guess", chat) EXCEPT !.word = Normalized[raw]]
                 /\ user_games' = user_games
                 /\ scores' = scores
                 /\ Active(chat)' ]_vars

\* a duplicate was refused
C4_Witness ==
    /\ reply.kind = "duplicate_guess"
    /\ Active(reply.chat)
    /\ reply.word \in user_games[reply.chat].guessed_words
    /\ user_games[reply.chat].attempts = 1

\* a message of some sender that is the target of the chat's game is handled
WinningGuess(chat) ==
    Active(chat) /\ \E raw \in WinningTexts(chat) : \E s \in Senders : Handles(chat, s, raw)

\* C5: a chat goes from NoGame to Active only by a /game that starts a game,
\* and from Active to NoGame only by a winning guess or by /stop; these three
\* requests do make their transition and every other request leaves the
\* chat's state alone. A stored session is active, and the store holds one
\* session per chat id at most (it is a mapping from chat ids).
C5_SessionStateMachine ==
    [][ /\ \A chat \in Chats :
              /\ (~Active(chat) /\ Active(chat)') => game_command(chat)
              /\ (Active(chat) /\ ~Active(chat)') =>
                     (stop_command(chat) \/ WinningGuess(chat))
              /\ (~Active(chat) /\ game_command(chat)) => Active(chat)'
              /\ (Active(chat) /\ stop_command(chat)) => ~Active(chat)'
              /\ WinningGuess(chat) => ~Active(chat)'
        /\ (DOMAIN user_games' \subseteq Chats)
        /\ \A chat \in DOMAIN user_games' : user_games'[chat].active ]_vars

\* a second game runs in a chat whose first game was won
C5_Witness ==
    /\ reply.kind = "game_started"
    /\ Active(reply.chat)
    /\ \E i \in 1..Len(scores) : scores[i].chat_id = reply.chat

\* C7: the scores table changes only by a winning guess, which appends one
\* row of 5 points for its sender and chat; a wrong accepted guess and every
\* other request leave the table as it was.
C7_ScoresOnlyAppendedByWins ==
    [][ /\ scores' # scores =>
              \E chat \in Chats : Active(chat) /\
                 \E raw \in WinningTexts(chat) : \E s \in Senders :
                    /\ Handles(chat, s, raw)
                    /\ scores' = Append(scores, Row(s[1], s[2], 5, chat))
        /\ reply'.kind # "win" => scores' = scores
        /\ \A i \in 1..Len(scores') : scores'[i].points = 5 ]_vars

\* a wrong guess was accepted while the table held a row, and holds it still
C7_Witness ==
    /\ reply.kind = "progress"
    /\ Len(scores) = 1
    /\ Active(reply.chat)
    /\ user_games[reply.chat].attempts >= 1

\* C8: with a game active, a message whose normalized text is not exactly
\* five letters gets the format error; sessions and scores stay as they were.
C8_MalformedGuessChangesNothing ==
    [][ \A chat \in Chats : Active(chat) =>
           \A raw \in MalformedTexts : \A s \in Senders :
              Handles(chat, s, raw) =>
                 /\ reply' = Msg("format_error", chat)
                 /\ user_games' = user_games
                 /\ scores' = scores ]_vars

\* the format error was sent in a chat whose game has a guess in its history
C8_Witness ==
    /\ reply.kind = "format_error"
    /\ Active(reply.chat)
    /\ user_games[reply.chat].attempts > 0

\* C9: a message to a chat with no active session gets no reply and changes
\* neither the sessions nor the scores, whatever its text.
C9_MessageWithoutGameIgnored ==
    [][ \A chat \in Chats : ~Active(chat) =>
           \A raw \in Texts : \A s \in Senders :
              Handles(chat, s, raw) =>
                 /\ reply' = NoReply(chat)
                 /\ user_games' = user_games
                 /\ scores' = scores ]_vars

\* a message went unanswered in a chat without a game while the other chat
\* has one
C9_Witness ==
    /\ reply.kind = "none"
    /\ reply.chat \in Chats
    /\ ~Active(reply.chat)
    /\ \E chat \in Chats : Active(chat)

\* C10: /stop in a chat with an active session removes that session (and no
\* other) and reveals its target word; in a chat without one it reports that
\* no game is active and changes no session; the scores stay as they were.
C10_StopRevealsAndDeletes ==
    [][ \A chat \in Chats :
            stop_command(chat) =>
                /\ scores' = scores
                /\ IF Active(chat)
                   THEN /\ reply'.kind = "stopped" /\ reply'.chat = chat
                        /\ reply'.word = user_games[chat].word
                        /\ chat \notin DOMAIN user_games'
                        /\ \A other \in Chats \ {chat} :
                              /\ other \in DOMAIN user_games'
                                    <=> other \in DOMAIN user_games
                              /\ other \in DOMAIN user_games
                                    => user_games'[other] = user_games[other]
                   ELSE /\ reply' = Msg("no_active_game", chat)
                        /\ user_games' = user_games ]_vars

\* a game with a guess in its history was stopped while the other chat plays
C10_Witness ==
    /\ reply.kind = "stopped"
    /\ reply.chat \notin DOMAIN user_games
    /\ \E chat \in Chats : Active(chat) /\ user_games[chat].attempts > 0

\* C11: every stored session's target is a word of five uppercase letters
\* from the step that creates the session on, whether the provider or the
\* built-in list supplied it, and stays the same word while the session exists.
C11_TargetFiveUppercaseImmutable ==
    [][ /\ \A chat \in DOMAIN user_games' : FiveLetters(user_games'[chat].word)
        /\ \A chat \in DOMAIN user_games \cap DOMAIN user_games' :
              user_games'[chat].word = user_games[chat].word ]_vars

\* the words of a history, in the order of their acceptance
HistoryWords(history) == [i \in 1..Len(history) |-> history[i][1]]

\* the session's counters, history and guessed_words describe the same guesses
Consistent(game) ==
    /\ game.active
    /\ game.attempts = Len(game.history)
    /\ game.attempts = Cardinality(game.guessed_words)
    /\ \A i, j \in 1..Len(game.history) :
          i # j => HistoryWords(game.history)[i] # HistoryWords(game.history)[j]
    /\ {HistoryWords(game.history)[i] : i \in 1..Len(game.history)} = game.guessed_words

\* C21: in every reachable state every stored session is active, its attempts
\* equal the length of its history and the size of guessed_words, the words of
\* its history are pairwise distinct and are exactly guessed_words, and while
\* the session exists its history only grows by appending.
C21_SessionCountersAgree ==
    [][ /\ \A chat \in DOMAIN user_games' : Consistent(user_games'[chat])
        /\ \A chat \in DOMAIN user_games \cap DOMAIN user_games' :
              LET before == user_games[chat].history
                  after == user_games'[chat].history
              IN  /\ Len(before) <= Len(after)
                  /\ SubSeq(after, 1, Len(before)) = before ]_vars

\* C22: in every active session the target is not in guessed_words, and a
\* message whose normalized text is the target of the chat's active game is
\* never answered as a duplicate: it is accepted, answered with the win
\* summary, and ends the game.
C22_TargetAlwaysWins ==
    [][ /\ \A chat \in DOMAIN user_games' :
              user_games'[chat].word \notin user_games'[chat].guessed_words
        /\ \A chat \in Chats : Active(chat) =>
              \A raw \in TargetTexts(chat) : \A s \in Senders :
                 Handles(chat, s, raw) =>
                    /\ reply'.kind = "win"
                    /\ ~Active(chat)' ]_vars

----------------------------------------------------------------------------
(* Properties of interleaved handler calls, under SpecLoop *)

\* the call in place i runs in this step, from its first statement to its await
Running(i) == tasks[i].pc = "start" /\ tasks'[i].pc = "reply"

\* the session of the chat, or no session, is what it was
SameSession(chat) ==
    /\ chat \in DOMAIN user_games <=> chat \in DOMAIN user_games'
    /\ chat \in DOMAIN user_games => user_games'[chat] = user_games[chat]

\* C23: with handler calls interleaved at their awaits, a call tests and
\* changes the session store in the one step that takes it to its await, and
\* nothing else changes the store or the scores. A /game that runs while the
\* chat has a session (created by a call that may still be awaiting its reply)
\* answers "already active" and leaves the session as it is; a row is added to
\* the scores only by a guess that ends the chat's active session, so that the
\* next winning guess finds no session to win; and a call changes no session
\* of another chat.
C23_InterleavedCallsDoNotRace ==
    [][ /\ \A i \in Slots : Running(i) =>
              LET t == tasks[i] IN
              /\ \A chat \in Chats \ {t.chat} : SameSession(chat)
              /\ (t.kind = "game" /\ Active(t.chat)) =>
                     /\ SameSession(t.chat)
                     /\ tasks'[i].sent = "already_active"
              /\ (t.kind = "text" /\ ~Active(t.chat)) =>
                     /\ SameSession(t.chat)
                     /\ scores' = scores
              /\ scores' # scores =>
                     /\ t.kind = "text"
                     /\ Active(t.chat) /\ ~Active(t.chat)'
                     /\ Len(scores') = Len(scores) + 1
        /\ (\A i \in Slots : ~Running(i)) => UNCHANGED <<user_games, scores>> ]_vars

\* two calls of /game for one chat are in flight, both at the await of their
\* reply: one created the session, the other answered that a game is running
C23_Witness ==
    \E i, j \in Slots :
       /\ i # j
       /\ tasks[i].kind = "game" /\ tasks[j].kind = "game"
       /\ tasks[i].chat = tasks[j].chat
       /\ tasks[i].pc = "reply" /\ tasks[j].pc = "reply"
       /\ tasks[i].sent = "game_started"
       /\ tasks[j].sent = "already_active"
       /\ Active(tasks[i].chat)

----------------------------------------------------------------------------
(* Properties of the win summary, under SpecWin *)

\* the rows of `table` that belong to user u
RowsOf(table, u) == {i \in 1..Len(table) : table[i].user_id = u}

\* C20: the total shown in the win summary is the sum of the points of all
\* rows of the winner, the row of this win included, whatever else the table
\* holds (stated here for the wins during which no store operation failed).
C20_WinSummaryShowsUpdatedTotal ==
    [][ \A chat \in Chats : Active(chat) =>
           \A raw \in WinningTexts(chat) : \A s \in Senders :
              (Handles(chat, s, raw) /\ errors' = {}) =>
                  /\ reply'.kind = "win"
                  /\ reply'.score = SumPoints(scores', RowsOf(scores', s[1])) ]_vars

----------------------------------------------------------------------------
(* Properties of the broadcast, under SpecBot *)

\* the kinds the replied-to message of a broadcast can have
Kinds == ContentTypes \cup {AttributeError}

\* the owner's /broadcast in `chat`, replying to a message of kind t, runs in
\* this step
OwnerBroadcast(chat, t) == broadcast_command(chat, AADII_USER_ID, TRUE, t)

\* the sends of `attempts` that went to chat c
SendsTo(attempts, c) == Cardinality({i \in 1..Len(attempts) : attempts[i].chat = c})

\* the sends of `attempts` that failed
Failed(attempts) == Cardinality({i \in 1..Len(attempts) : ~attempts[i].ok})

\* C13 as stated: in a broadcast by the owner with a replied-to message (here
\* of a kind that can be read) every registered chat but the issuing one gets
\* exactly one send attempt, also after a send that failed, the issuing chat
\* gets none, and the final report is sent.
C13_EveryRegisteredChatGetsOneSend ==
    [][ \A chat \in AllChats : \A t \in ContentTypes :
           OwnerBroadcast(chat, t) =>
              /\ \A c \in chats \ {chat} : SendsTo(sends', c) = 1
              /\ SendsTo(sends', chat) = 0
              /\ reply'.kind = "broadcast_complete"
              /\ reply'.chat = chat ]_vars

\* the chat ids the handler of this step read from the registry
ReadIds == IF "db_get_all_chat_ids" \in errors' THEN {} ELSE chats

\* C13 as amended: when the kind of the replied-to message can be read, every
\* chat id read from the registry (all registered ids, or none when the read
\* failed) but the issuing one gets exactly one send attempt, also after a
\* send that failed, no other chat gets one, and the final report is sent;
\* when the kind cannot be read nothing is sent but the error reply.
C13_EveryChatReadGetsOneSend ==
    [][ \A chat \in AllChats : \A t \in Kinds :
           OwnerBroadcast(chat, t) =>
              IF t = AttributeError
              THEN /\ sends' = <<>>
                   /\ reply' = Msg("cannot_broadcast", chat)
              ELSE /\ \A c \in ReadIds \ {chat} : SendsTo(sends', c) = 1
                   /\ \A c \in AllChats \ (ReadIds \ {chat}) : SendsTo(sends', c) = 0
                   /\ Len(sends') = Cardinality(ReadIds \ {chat})
                   /\ reply'.kind = "broadcast_complete"
                   /\ reply'.chat = chat ]_vars

\* a broadcast whose first send failed and whose second send was attempted
\* all the same
C13_Witness ==
    /\ reply.kind = "broadcast_complete"
    /\ Len(sends) = 2
    /\ ~sends[1].ok
    /\ sends[2].chat # sends[1].chat
    /\ SendsTo(sends, reply.chat) = 0

\* C14 as stated: with N registered chats of which exactly k sends fail the
\* report says (N - k) of N, also when the registry was read without failure.
C14_ReportsSuccessesOfRegistered ==
    [][ \A chat \in AllChats : \A t \in ContentTypes :
           (OwnerBroadcast(chat, t) /\ errors' = {}) =>
              /\ reply'.total_chats = Cardinality(chats)
              /\ reply'.success_count = Cardinality(chats) - Failed(sends') ]_vars

\* C14 as amended: the report gives the successful sends out of the N chat ids
\* read from the registry (all registered ids, or none when the read failed);
\* with exactly k sends failing that is (N - k) of N when the issuing chat is
\* not among the ids read and (N - 1 - k) of N when it is, since it is
\* counted in N and never sent to.
C14_ReportsSuccessesOfIdsRead ==
    [][ \A chat \in AllChats : \A t \in ContentTypes :
           OwnerBroadcast(chat, t) =>
              LET N == Cardinality(ReadIds)
                  skipped == IF chat \in ReadIds THEN 1 ELSE 0
              IN  /\ reply'.kind = "broadcast_complete"
                  /\ reply'.content_type = t
                  /\ reply'.total_chats = N
                  /\ reply'.success_count = N - skipped - Failed(sends') ]_vars

\* two registered chats, a broadcast from the owner's private chat, one send
\* failing: the report says 1 of 2
C14_Witness ==
    /\ reply.kind = "broadcast_complete"
    /\ reply.chat \notin chats
    /\ Cardinality(chats) = 2
    /\ Failed(sends) = 1
    /\ reply.success_count = 1
    /\ reply.total_chats = 2

\* C15: /broadcast of a user who is not the owner gets the access-denied
\* reply, with or without a replied-to message; nothing is sent to a
\* registered chat and the registry is neither read nor changed.
C15_BroadcastOwnerOnly ==
    [][ \A chat \in AllChats : \A user_id \in Users \ {AADII_USER_ID} : \A r \in Replied :
           broadcast_command(chat, user_id, r[1], r[2]) =>
              /\ reply' = Msg("access_denied", chat)
              /\ sends' = <<>>
              /\ ~chat_ids'.read
              /\ errors' = {}
              /\ chats' = chats ]_vars

\* access was denied in a group while other chats were registered
C15_Witness ==
    /\ reply.kind = "access_denied"
    /\ chats \ {reply.chat} # {}
    /\ sends = <<>>
    /\ ~chat_ids.read

\* the messages the handler of the latest update sent
Sent == {reply}

\* C16: when an exception reaches error_handler, the error is reported to the
\* owner (an owner alert is sent; that it goes to a private chat is not even
\* asked here), also when the update is not the owner's, and the chat of a
\* user who is not the owner gets the generic notice and nothing else.
C16_ErrorsReportedToOwner ==
    [][ \A chat \in AllChats : \A user_id \in Members(chat) :
           error_handler(chat, user_id) =>
              /\ \E m \in Sent' : m.kind = "owner_alert"
              /\ user_id # AADII_USER_ID =>
                    /\ \E m \in Sent' : m.chat = chat /\ m.kind = "error_notice"
                    /\ \A m \in Sent' : m.chat = chat => m.kind = "error_notice" ]_vars

\* the step handles an update (a command or a message) that came from `chat`
Interaction(chat) == reply'.chat = chat

\* C17: once any update of a chat that is not private has been handled (here:
\* without a failure of the store), the chat's id is in the registry; a
\* registered id is never removed; and the id of a private chat is never
\* registered.
C17_RegisteredOnFirstInteraction ==
    [][ /\ \A chat \in AllChats :
              (ChatType(chat) # "private" /\ Interaction(chat) /\ errors' = {})
                 => chat \in chats'
        /\ chats \subseteq chats'
        /\ chats' \cap PrivateChats = {} ]_vars

----------------------------------------------------------------------------
(* Properties of the store's operations, under SpecDb *)

\* C18: an operation of the store that opened a connection has closed it when
\* it returns, whether its statement succeeded or raised, so that between the
\* operations no connection is open.
C18_ConnectionClosedOnReturn ==
    db_pc \in {"return", "idle"} => db_conn # "open"

\* an operation whose statement raised has returned with its connection closed
C18_Witness ==
    /\ db_pc = "idle"
    /\ db_conn = "closed"
    /\ db_op.name \in errors

----------------------------------------------------------------------------
(* Properties of the leaderboard query, under SpecLb *)

\* the rows of the table that the latest query selects for user u
SelectedRowsOf(u) ==
    {i \in 1..Len(scores) :
        /\ scores[i].user_id = u
        /\ Selected(scores[i], lb_args[1], lb_args[2], lb_args[3])}

\* C6: the returned sequence holds each user id once at most, with the sum of
\* the points of all rows of that user that match the time filter and the
\* scope; it is sorted by total, highest first, and has 10 entries at most.
C6_LeaderboardGroupsByUser ==
    lb_args # <<>> =>
        LET s == lb_out.sorted_scores IN
        /\ \A i, j \in 1..Len(s) : i # j => s[i][1] # s[j][1]
        /\ \A i \in 1..Len(s) : s[i][2] = SumPoints(scores, SelectedRowsOf(s[i][1]))
        /\ \A i \in 1..(Len(s) - 1) : s[i][2] >= s[i + 1][2]
        /\ Len(s) <= 10

\* the latest handler queried the leaderboard and the query failed
QueryFailed == lb_args # <<>> /\ "db_get_leaderboard" \in errors

\* C12: when the connection or the query of db_get_leaderboard fails, the call
\* returns the empty sequence with the empty name mapping, whatever the table
\* holds, and the handler answers with the panel that shows "no scores yet".
C12_FailedQueryGivesEmptyPanel ==
    QueryFailed =>
        /\ lb_out = EmptyResult
        /\ reply.kind = "leaderboard"
        /\ reply.panel = <<NoScoresYet>>

\* the query failed on a table that holds rows matching its filters
C12_Witness ==
    /\ QueryFailed
    /\ Groups(scores, lb_args[1], lb_args[2], lb_args[3]) # {}
    /\ reply.panel = <<NoScoresYet>>

====
